---- MODULE Spec2Model ----
(***************************************************************************)
(* The compaction iterator of pebble (compactionIter) over an ordered      *)
(* input of internal keys, together with the internal-key value type of    *)
(* package db.                                                             *)
(*                                                                         *)
(* A user key is a small natural number, a value is a sequence of opaque   *)
(* tokens, the merge operator is concatenation (newer operand first).      *)
(* An internal key is [UserKey, trailer] with trailer = seqNum*256 + kind. *)
(*                                                                         *)
(* The functions of InternalKey (encoding, decoding, comparison) are       *)
(* applied to keys whose user key is a sequence of bytes; their            *)
(* specification is SpecKey.  TLC's integers are 32 bits wide, so a        *)
(* trailer of the model stays below 2^31: a sequence number has 23 bits    *)
(* where the program has 56, and the batch bit is the highest of them.     *)
(*                                                                         *)
(* The metrics of package pebble (LevelMetrics, Metrics) are records of    *)
(* counters; their specification is SpecMetrics.  A counter has            *)
(* CounterBits bits where the program has 64 (32 for Sublevels), and       *)
(* arithmetic wraps at that width as the program's does at its own.  A     *)
(* float64 is the exact fraction [num, den]: the values of the model are   *)
(* far below 2^53, where the conversion of an integer is exact.            *)
(***************************************************************************)
EXTENDS Integers, Sequences, FiniteSets, TLC

\* ------------------------------------------------------------------ bounds
NumKeys == 2
MaxSeq == 2
MaxLen == 3
MaxSnapshots == 1
MaxLower == 1
MaxBatch == 2
MaxKeyLen == 1
NumLevels == 3
CounterBits == 10

\* ------------------------------------------------- package db: InternalKey
InternalKeyKindDelete == 0
InternalKeyKindSet == 1
InternalKeyKindMerge == 2
InternalKeyKindLogData == 3
InternalKeyKindRangeDelete == 15
InternalKeyKindMax == 17
InternalKeyKindInvalid == 255

\* the bit of a batch sequence number: the highest bit of a sequence
\* number (bit 55 of 56 in the program, bit 22 of 23 here)
InternalKeySeqNumBatch == 2 ^ 22

\* the largest sequence number (2^56 - 1 in the program)
InternalKeySeqNumMax == 2 ^ 23 - 1

MakeInternalKey(userKey, seqNum, kind) ==
    [UserKey |-> userKey, trailer |-> seqNum * 256 + kind]

SeqNum(k) == k.trailer \div 256

Kind(k) == k.trailer % 256

\* faulty variant of Valid: only the kind 0xff is invalid
ValidButInvalid(k) == Kind(k) # InternalKeyKindInvalid

Valid(k) == Kind(k) <= InternalKeyKindMax

\* the user-key comparer handed to the iterator (i.cmp): user keys are
\* naturals, compared as such
Compare(a, b) == IF a < b THEN -1 ELSE IF a > b THEN 1 ELSE 0

\* bytes.Compare: the lexicographic order of two sequences of bytes
RECURSIVE BytesCompare(_, _)
BytesCompare(a, b) ==
    IF a = << >> \/ b = << >>
    THEN IF Len(a) < Len(b) THEN -1 ELSE IF Len(a) > Len(b) THEN 1 ELSE 0
    ELSE IF Head(a) < Head(b) THEN -1
    ELSE IF Head(a) > Head(b) THEN 1
    ELSE BytesCompare(Tail(a), Tail(b))

\* faulty variant of InternalCompare: two valid keys that are equal compare
\* as less
InternalCompareNoEqual(userCmp, a, b) ==
    IF ~Valid(a)
    THEN IF Valid(b) THEN -1 ELSE BytesCompare(a.UserKey, b.UserKey)
    ELSE IF ~Valid(b) THEN 1
    ELSE IF userCmp[a.UserKey, b.UserKey] # 0
         THEN userCmp[a.UserKey, b.UserKey]
    ELSE IF a.trailer < b.trailer THEN 1
    ELSE -1

\* faulty variant of InternalCompare: the smaller trailer comes first
InternalCompareAscending(userCmp, a, b) ==
    IF ~Valid(a)
    THEN IF Valid(b) THEN -1 ELSE BytesCompare(a.UserKey, b.UserKey)
    ELSE IF ~Valid(b) THEN 1
    ELSE IF userCmp[a.UserKey, b.UserKey] # 0
         THEN userCmp[a.UserKey, b.UserKey]
    ELSE IF a.trailer < b.trailer THEN -1
    ELSE IF a.trailer > b.trailer THEN 1
    ELSE 0

\* userCmp is a comparator of user keys: a function of two user keys to
\* -1, 0 or 1
InternalCompare(userCmp, a, b) ==
    IF ~Valid(a)
    THEN IF Valid(b) THEN -1 ELSE BytesCompare(a.UserKey, b.UserKey)
    ELSE IF ~Valid(b) THEN 1
    ELSE IF userCmp[a.UserKey, b.UserKey] # 0
         THEN userCmp[a.UserKey, b.UserKey]
    ELSE IF a.trailer < b.trailer THEN 1
    ELSE IF a.trailer > b.trailer THEN -1
    ELSE 0

\* InternalKey.Size: the bytes of the encoded key
Size(k) == Len(k.UserKey) + 8

\* binary.LittleEndian.PutUint64: the n lowest bytes of v, the lowest first
RECURSIVE PutUint(_, _)
PutUint(v, n) ==
    IF n = 0 THEN << >> ELSE << v % 256 >> \o PutUint(v \div 256, n - 1)

\* binary.LittleEndian.Uint64: the number whose bytes are b, the lowest
\* first
RECURSIVE Uint64(_)
Uint64(b) == IF b = << >> THEN 0 ELSE Head(b) + 256 * Uint64(Tail(b))

\* faulty variant of Encode: the trailer is written at the start of the
\* buffer and not behind the user key
EncodeAtStart(k, buf) ==
    LET n == IF Len(k.UserKey) < Len(buf) THEN Len(k.UserKey) ELSE Len(buf)
        t == PutUint(k.trailer, 8)
    IN  [j \in 1 .. Len(buf) |->
            IF j <= 8 THEN t[j] ELSE IF j <= n THEN k.UserKey[j] ELSE buf[j]]

\* InternalKey.Encode: copy the user key into buf, then put the trailer
\* behind it; buf has at least Size(k) bytes
Encode(k, buf) ==
    LET n == IF Len(k.UserKey) < Len(buf) THEN Len(k.UserKey) ELSE Len(buf)
        t == PutUint(k.trailer, 8)
    IN  [j \in 1 .. Len(buf) |->
            IF j <= n THEN k.UserKey[j]
            ELSE IF j <= n + 8 THEN t[j - n]
            ELSE buf[j]]

DecodeInternalKey(encodedKey) ==
    LET n == Len(encodedKey) - 8
    IN  IF n < 0
        THEN MakeInternalKey(encodedKey, 0, InternalKeyKindInvalid)
        ELSE [UserKey |-> SubSeq(encodedKey, 1, n),
              trailer |-> Uint64(SubSeq(encodedKey, n + 1, n + 8))]

\* InternalKey.SetKind: replace the kind byte of the trailer, keep the
\* sequence number
SetKind(k, kind) == [k EXCEPT !.trailer = (k.trailer \div 256) * 256 + kind]

\* the merge operator handed to the iterator (i.merge): concatenation, the
\* newer operand first
Merge(key, value, older) == value \o older

\* ------------------------------------------------------------- the inputs
UserKeys == 1 .. NumKeys

\* i.cmp as a comparator of user keys
DefaultComparer == [a \in UserKeys, b \in UserKeys |-> Compare(a, b)]

SeqNums == 1 .. MaxSeq

Kinds ==
    { InternalKeyKindDelete, InternalKeyKindSet, InternalKeyKindMerge,
      InternalKeyKindLogData }

\* the zero InternalKey and the nil value of a new compactionIter
NilKey == [UserKey |-> 0, trailer |-> 0]

NilValue == << >>

NoError == "nil"

\* no internal key is being probed
NoProbe == [op |-> "none"]

\* a record of the input: an internal key and its value; each record
\* carries one token of its own, so that a value tells where it came from
Entry(u, s, kd) ==
    [key |-> MakeInternalKey(u, s, kd), value |-> << <<u, s, kd>> >>]

Entries == { Entry(u, s, kd) : u \in UserKeys, s \in SeqNums, kd \in Kinds }

\* record e may follow the records s in the input: its key is greater in
\* internal-key order (user key ascending, sequence number descending, kind
\* descending) than the last key of s
Follows(s, e) ==
    s # << >> => InternalCompare(DefaultComparer, s[Len(s)].key, e.key) < 0

\* the inputs of at most n records out of entries, in order
RECURSIVE OrderedInputsOf(_, _)
OrderedInputsOf(entries, n) ==
    IF n = 0 THEN { << >> }
    ELSE LET shorter == OrderedInputsOf(entries, n - 1)
         IN  shorter \cup
             { Append(s, e) :
                 <<s, e>> \in
                   { p \in { t \in shorter : Len(t) = n - 1 } \X entries :
                       Follows(p[1], p[2]) } }

OrderedInputs(n) == OrderedInputsOf(Entries, n)

Inputs == OrderedInputs(MaxLen)

\* the inputs of SpecAnyInput: records of every kind that the program
\* writes to a table or a batch, with sequence numbers of committed writes
\* and of batches
AnyKinds == Kinds \cup { InternalKeyKindRangeDelete }

BatchSeqNums == { InternalKeySeqNumBatch + s : s \in 1 .. MaxBatch }

AnyEntries ==
    { Entry(u, s, kd) :
        u \in UserKeys, s \in SeqNums \cup BatchSeqNums, kd \in AnyKinds }

AnyInputs == OrderedInputsOf(AnyEntries, MaxLen)

\* what the Error() of the input iterator may return
IterErrors == { NoError, "read error" }

\* ------------------------------------------------------------------ state
VARIABLES
    input,           \* the records the merging input iterator yields, in order
    elideTombstone,  \* i.elideTombstone, a predicate on user keys
    i,               \* the compactionIter: iter (position in input), err, key,
                     \* value, valid, skip
    out,             \* the records returned since the last First()
    ret,             \* what the last Next() returned: "true", "false", or
                     \* "none" before any
    firstCalls,      \* First() was called 0 times, once, or more (2)
    iterErr,         \* what i.iter.Error() returns once the input iterator
                     \* is past the records it yields
    probe            \* the internal keys the functions of InternalKey are
                     \* applied to, and what they returned

vars == <<input, elideTombstone, i, out, ret, firstCalls, iterErr, probe>>

\* ------------------------------------- db.InternalIterator over the input
\* position 0 is the iterator before it is positioned, Len(input)+1 past
\* the end
IterValid(p) == p \in 1 .. Len(input)

IterFirst == 1

IterNext(p) == p + 1

IterKey(p) == input[p].key

IterValue(p) == input[p].value

\* iter.Error(): nil while the iterator is at a record
IterError(p) == IF IterValid(p) THEN NoError ELSE iterErr

IterNextUserKey(p) ==
    LET greater == { q \in p + 1 .. Len(input) :
                       Compare(input[q].key.UserKey, input[p].key.UserKey) > 0 }
    IN  IF greater = {} THEN Len(input) + 1
        ELSE CHOOSE q \in greater : \A r \in greater : q <= r

\* --------------------------------------------------------- compactionIter
\* every operator below takes the iterator s and yields [i |-> the iterator
\* afterwards, ret |-> the value returned]

\* mergeNext, case Delete: return what was accumulated
MergeNextDelete(s) == [i |-> s, ret |-> TRUE]

\* faulty variant of MergeNextSet: the collapsed Set is returned, the older
\* records of its user key are not skipped
MergeNextSetNoSkip(s) ==
    [i |-> [s EXCEPT
              !.value = Merge(s.key.UserKey, s.value, IterValue(s.iter)),
              !.key = SetKind(s.key, InternalKeyKindSet),
              !.skip = FALSE],
     ret |-> TRUE]

\* mergeNext, case Set: merge the Set's value in and turn the key into a Set
MergeNextSet(s) ==
    [i |-> [s EXCEPT
              !.value = Merge(s.key.UserKey, s.value, IterValue(s.iter)),
              !.key = SetKind(s.key, InternalKeyKindSet)],
     ret |-> TRUE]

\* mergeNext, case Merge: merge the value in and go on
MergeNextMerge(s) ==
    [s EXCEPT !.value = Merge(s.key.UserKey, s.value, IterValue(s.iter))]

\* mergeNext, default: latch the error (the message names the kind of i.key)
MergeNextInvalid(s) ==
    [i |-> [s EXCEPT !.err = <<"invalid internal key kind", Kind(s.key)>>],
     ret |-> FALSE]

\* mergeNext, the input ended or moved to another user key
MergeNextDone(s) == [i |-> [s EXCEPT !.skip = FALSE], ret |-> TRUE]

\* the loop of mergeNext
RECURSIVE MergeLoop(_)
MergeLoop(s) ==
    LET s1 == [s EXCEPT !.iter = IterNext(s.iter)]
    IN  IF ~IterValid(s1.iter) THEN MergeNextDone(s1)
        ELSE IF Compare(s1.key.UserKey, IterKey(s1.iter).UserKey) # 0
             THEN MergeNextDone(s1)
        ELSE CASE Kind(IterKey(s1.iter)) = InternalKeyKindDelete ->
                    MergeNextDelete(s1)
               [] Kind(IterKey(s1.iter)) = InternalKeyKindSet ->
                    MergeNextSet(s1)
               [] Kind(IterKey(s1.iter)) = InternalKeyKindMerge ->
                    MergeLoop(MergeNextMerge(s1))
               [] OTHER -> MergeNextInvalid(s1)

\* mergeNext up to its loop: save the current user key and value
MergeNextSave(s) ==
    [s EXCEPT !.key.UserKey = IterKey(s.iter).UserKey,
              !.value = IterValue(s.iter),
              !.valid = TRUE,
              !.skip = TRUE]

mergeNext(s) == MergeLoop(MergeNextSave(s))

\* faulty variant of NextEmit: the record is returned, the older records
\* of its user key are not skipped
NextEmitNoSkip(s) ==
    [i |-> [s EXCEPT !.value = IterValue(s.iter), !.valid = TRUE],
     ret |-> TRUE]

\* Next, case Set, and case Delete when the tombstone is kept
NextEmit(s) ==
    [i |-> [s EXCEPT !.value = IterValue(s.iter), !.valid = TRUE,
                     !.skip = TRUE],
     ret |-> TRUE]

\* faulty variant of NextElide: only the tombstone is passed over, not the
\* records it shadows
NextElideOne(s) == [s EXCEPT !.iter = IterNext(s.iter)]

\* Next, case Delete when the tombstone is elided: on to the next user key
NextElide(s) == [s EXCEPT !.iter = IterNextUserKey(s.iter)]

\* Next, default: latch the error
NextInvalid(s) ==
    [i |-> [s EXCEPT !.err = <<"invalid internal key kind", Kind(s.key)>>],
     ret |-> FALSE]

\* the loop of Next
RECURSIVE NextLoop(_)
NextLoop(s) ==
    IF ~IterValid(s.iter) THEN [i |-> s, ret |-> FALSE]
    ELSE LET s1 == [s EXCEPT !.key = IterKey(s.iter)]
         IN  CASE Kind(s1.key) = InternalKeyKindDelete ->
                    IF elideTombstone[s1.key.UserKey]
                    THEN NextLoop(NextElide(s1))
                    ELSE NextEmit(s1)
               [] Kind(s1.key) = InternalKeyKindSet -> NextEmit(s1)
               [] Kind(s1.key) = InternalKeyKindMerge -> mergeNext(s1)
               [] OTHER -> NextInvalid(s1)

\* faulty variant of NextSkip: the pending skip moves with PrevUserKey, to
\* the last record of the user key before the current one
NextSkipPrev(s) ==
    IF s.skip
    THEN [s EXCEPT !.skip = FALSE,
                   !.iter =
                     LET less == { q \in 1 .. s.iter - 1 :
                                     Compare(input[q].key.UserKey,
                                             input[s.iter].key.UserKey) < 0 }
                     IN  IF less = {} THEN 0
                         ELSE CHOOSE q \in less : \A r \in less : q >= r]
    ELSE s

\* faulty variant of NextSkip: the pending skip is dropped and the input
\* stays where it is
NextSkipStay(s) == [s EXCEPT !.skip = FALSE]

\* Next up to its loop: the pending skip to the next user key
NextSkip(s) ==
    IF s.skip
    THEN [s EXCEPT !.skip = FALSE, !.iter = IterNextUserKey(s.iter)]
    ELSE s

Next(s) ==
    IF s.err # NoError THEN [i |-> s, ret |-> FALSE]
    ELSE NextLoop([NextSkip(s) EXCEPT !.valid = FALSE])

\* faulty variant of First: repositions the input although an error is
\* recorded
FirstNoCheck(s) == Next([s EXCEPT !.iter = IterFirst])

\* First: [i, ret] of the Next() it ends with
First(s) ==
    IF s.err # NoError THEN [i |-> s, ret |-> FALSE]
    ELSE Next([s EXCEPT !.iter = IterFirst])

Emitted(s) == [key |-> s.key, value |-> s.value]

\* compactionIter.Valid
IsValid(s) == s.valid

Error(s) == s.err

Close(s) == s.err

\* ---------------------------------------------------------------- actions
Init ==
    /\ input \in Inputs
    /\ elideTombstone \in [UserKeys -> BOOLEAN]
    /\ i = [iter |-> 0, err |-> NoError, key |-> NilKey, value |-> NilValue,
            valid |-> FALSE, skip |-> FALSE]
    /\ out = << >>
    /\ ret = "none"
    /\ firstCalls = 0
    /\ iterErr = NoError
    /\ probe = NoProbe

CallFirst ==
    /\ firstCalls' = IF firstCalls = 0 THEN 1 ELSE 2
    /\ LET r == First(i)
       IN  /\ i' = r.i
           /\ IF i.err # NoError
              THEN UNCHANGED <<out, ret>>
              ELSE /\ ret' = IF r.ret THEN "true" ELSE "false"
                   /\ out' = IF r.ret THEN <<Emitted(r.i)>> ELSE << >>
    /\ UNCHANGED <<input, elideTombstone, iterErr, probe>>

CallNext ==
    /\ LET r == Next(i)
       IN  /\ i' = r.i
           /\ ret' = IF r.ret THEN "true" ELSE "false"
           /\ out' = IF r.ret THEN Append(out, Emitted(r.i)) ELSE out
    /\ UNCHANGED <<input, elideTombstone, firstCalls, iterErr, probe>>

Step == CallFirst \/ CallNext

Spec == Init /\ [][Step]_vars

\* the iterator over inputs of every kind and sequence number, and over an
\* input iterator that may end with an error
InitAnyInput ==
    /\ input \in AnyInputs
    /\ elideTombstone \in [UserKeys -> BOOLEAN]
    /\ i = [iter |-> 0, err |-> NoError, key |-> NilKey, value |-> NilValue,
            valid |-> FALSE, skip |-> FALSE]
    /\ out = << >>
    /\ ret = "none"
    /\ firstCalls = 0
    /\ iterErr \in IterErrors
    /\ probe = NoProbe

SpecAnyInput == InitAnyInput /\ [][Step]_vars

\* --------------------------------------- the functions of db.InternalKey
\* the user keys probed: the byte strings of at most MaxKeyLen bytes out of
\* two bytes
ProbeBytes == { 1, 255 }

ProbeUserKeys == UNION { [1 .. n -> ProbeBytes] : n \in 0 .. MaxKeyLen }

\* two valid kinds (the largest among them), two invalid ones (0xff among
\* them)
ProbeKinds ==
    { InternalKeyKindSet, InternalKeyKindMax, InternalKeyKindMax + 1,
      InternalKeyKindInvalid }

ProbeSeqNums == { 1, InternalKeySeqNumMax }

ProbeKeys ==
    { MakeInternalKey(u, s, kd) :
        u \in ProbeUserKeys, s \in ProbeSeqNums, kd \in ProbeKinds }

\* the comparators of user keys handed to InternalCompare: the bytewise
\* order and its reverse, both total orders of the byte strings
Comparers == { "bytewise", "reverse" }

UserCmp(name) ==
    [a \in Seq(0 .. 255), b \in Seq(0 .. 255) |->
        IF name = "bytewise" THEN BytesCompare(a, b) ELSE BytesCompare(b, a)]

\* the lengths an encoded key is cut to before it is decoded: shorter than
\* a trailer
ShortLens == { 0, 7 }

\* the first key InternalCompare is applied to: the key a, or the key
\* decoded from its encoding
Operand(pr) == IF pr.op = "decoded" THEN pr.decoded ELSE pr.a

InitKey ==
    /\ input = << >>
    /\ elideTombstone = [u \in UserKeys |-> FALSE]
    /\ i = [iter |-> 0, err |-> NoError, key |-> NilKey, value |-> NilValue,
            valid |-> FALSE, skip |-> FALSE]
    /\ out = << >>
    /\ ret = "none"
    /\ firstCalls = 0
    /\ iterErr = NoError
    /\ \E a \in ProbeKeys, b \in ProbeKeys,
          c \in { k \in ProbeKeys : Valid(k) }, cmp \in Comparers :
          probe = [op |-> "new", a |-> a, b |-> b, c |-> c, userCmp |-> cmp]

\* a.Encode(buf) with a buffer of a.Size() bytes
CallEncode ==
    /\ probe.op = "new"
    /\ probe' = [op |-> "encoded", a |-> probe.a, b |-> probe.b,
                 c |-> probe.c, userCmp |-> probe.userCmp,
                 buf |-> Encode(probe.a, [j \in 1 .. Size(probe.a) |-> 0])]
    /\ UNCHANGED <<input, elideTombstone, i, out, ret, firstCalls, iterErr>>

\* DecodeInternalKey of the encoded key, or of what is left of it when it
\* is cut short
CallDecode ==
    /\ probe.op = "encoded"
    /\ \E n \in { Len(probe.buf) } \cup ShortLens :
          LET raw == SubSeq(probe.buf, 1, n)
          IN  probe' = [op |-> "decoded", a |-> probe.a, b |-> probe.b,
                        c |-> probe.c, userCmp |-> probe.userCmp,
                        buf |-> probe.buf, raw |-> raw,
                        decoded |-> DecodeInternalKey(raw)]
    /\ UNCHANGED <<input, elideTombstone, i, out, ret, firstCalls, iterErr>>

\* InternalCompare(userCmp, x, y) for pairs of the keys x (the first
\* operand), b and c; short: x was decoded from fewer bytes than a trailer
\* has
CallInternalCompare ==
    /\ probe.op \in { "new", "decoded" }
    /\ LET x == Operand(probe)
           cmp == UserCmp(probe.userCmp)
       IN  probe' = [op |-> "compared", x |-> x, b |-> probe.b,
                     short |-> probe.op = "decoded" /\ Len(probe.raw) < 8,
                     c |-> probe.c, userCmp |-> probe.userCmp,
                     xb |-> InternalCompare(cmp, x, probe.b),
                     bx |-> InternalCompare(cmp, probe.b, x),
                     bc |-> InternalCompare(cmp, probe.b, probe.c),
                     xc |-> InternalCompare(cmp, x, probe.c)]
    /\ UNCHANGED <<input, elideTombstone, i, out, ret, firstCalls, iterErr>>

StepKey == CallEncode \/ CallDecode \/ CallInternalCompare

SpecKey == InitKey /\ [][StepKey]_vars

\* ------------------------------------------- package pebble: the metrics
\* the number of values of an unsigned counter
Word == 2 ^ CounterBits

\* the value of x as an unsigned counter (uint64)
Unsigned(x) == x % Word

\* the value of x as a signed counter (int64, int32)
Signed(x) == ((x + Word \div 2) % Word) - Word \div 2

\* the LevelMetrics a `var total LevelMetrics` starts from
ZeroLevelMetrics ==
    [Sublevels |-> 0, NumFiles |-> 0, Size |-> 0, Score |-> 0,
     BytesIn |-> 0, BytesIngested |-> 0, BytesMoved |-> 0, BytesRead |-> 0,
     BytesCompacted |-> 0, BytesFlushed |-> 0, TablesCompacted |-> 0,
     TablesFlushed |-> 0, TablesIngested |-> 0, TablesMoved |-> 0,
     Additional |-> [ValueBlocksSize |-> 0, BytesWrittenDataBlocks |-> 0,
                     BytesWrittenValueBlocks |-> 0]]

\* faulty variant of Add: the size is set, not added
AddSetsSize(m, u) ==
    [m EXCEPT
       !.NumFiles = Signed(@ + u.NumFiles),
       !.Size = u.Size,
       !.BytesIn = Unsigned(@ + u.BytesIn),
       !.BytesIngested = Unsigned(@ + u.BytesIngested),
       !.BytesMoved = Unsigned(@ + u.BytesMoved),
       !.BytesRead = Unsigned(@ + u.BytesRead),
       !.BytesCompacted = Unsigned(@ + u.BytesCompacted),
       !.BytesFlushed = Unsigned(@ + u.BytesFlushed),
       !.TablesCompacted = Unsigned(@ + u.TablesCompacted),
       !.TablesFlushed = Unsigned(@ + u.TablesFlushed),
       !.TablesIngested = Unsigned(@ + u.TablesIngested),
       !.TablesMoved = Unsigned(@ + u.TablesMoved),
       !.Additional.BytesWrittenDataBlocks =
           Unsigned(@ + u.Additional.BytesWrittenDataBlocks),
       !.Additional.BytesWrittenValueBlocks =
           Unsigned(@ + u.Additional.BytesWrittenValueBlocks),
       !.Additional.ValueBlocksSize =
           Unsigned(@ + u.Additional.ValueBlocksSize)]

\* faulty variant of Add: the sublevels are added too, and the bytes moved
\* are not
AddSublevels(m, u) ==
    [m EXCEPT
       !.Sublevels = Signed(@ + u.Sublevels),
       !.NumFiles = Signed(@ + u.NumFiles),
       !.Size = Signed(@ + u.Size),
       !.BytesIn = Unsigned(@ + u.BytesIn),
       !.BytesIngested = Unsigned(@ + u.BytesIngested),
       !.BytesRead = Unsigned(@ + u.BytesRead),
       !.BytesCompacted = Unsigned(@ + u.BytesCompacted),
       !.BytesFlushed = Unsigned(@ + u.BytesFlushed),
       !.TablesCompacted = Unsigned(@ + u.TablesCompacted),
       !.TablesFlushed = Unsigned(@ + u.TablesFlushed),
       !.TablesIngested = Unsigned(@ + u.TablesIngested),
       !.TablesMoved = Unsigned(@ + u.TablesMoved),
       !.Additional.BytesWrittenDataBlocks =
           Unsigned(@ + u.Additional.BytesWrittenDataBlocks),
       !.Additional.BytesWrittenValueBlocks =
           Unsigned(@ + u.Additional.BytesWrittenValueBlocks),
       !.Additional.ValueBlocksSize =
           Unsigned(@ + u.Additional.ValueBlocksSize)]

\* LevelMetrics.Add: m after m.Add(u)
Add(m, u) ==
    [m EXCEPT
       !.NumFiles = Signed(@ + u.NumFiles),
       !.Size = Signed(@ + u.Size),
       !.BytesIn = Unsigned(@ + u.BytesIn),
       !.BytesIngested = Unsigned(@ + u.BytesIngested),
       !.BytesMoved = Unsigned(@ + u.BytesMoved),
       !.BytesRead = Unsigned(@ + u.BytesRead),
       !.BytesCompacted = Unsigned(@ + u.BytesCompacted),
       !.BytesFlushed = Unsigned(@ + u.BytesFlushed),
       !.TablesCompacted = Unsigned(@ + u.TablesCompacted),
       !.TablesFlushed = Unsigned(@ + u.TablesFlushed),
       !.TablesIngested = Unsigned(@ + u.TablesIngested),
       !.TablesMoved = Unsigned(@ + u.TablesMoved),
       !.Additional.BytesWrittenDataBlocks =
           Unsigned(@ + u.Additional.BytesWrittenDataBlocks),
       !.Additional.BytesWrittenValueBlocks =
           Unsigned(@ + u.Additional.BytesWrittenValueBlocks),
       !.Additional.ValueBlocksSize =
           Unsigned(@ + u.Additional.ValueBlocksSize)]

\* a float64 that is the quotient of two integers
Quotient(n, d) == [num |-> n, den |-> d]

\* faulty variant of WriteAmp: the bytes flushed are left out
WriteAmpCompacted(m) ==
    IF m.BytesIn = 0 THEN Quotient(0, 1)
    ELSE Quotient(m.BytesCompacted, m.BytesIn)

\* LevelMetrics.WriteAmp
WriteAmp(m) ==
    IF m.BytesIn = 0 THEN Quotient(0, 1)
    ELSE Quotient(Unsigned(m.BytesFlushed + m.BytesCompacted), m.BytesIn)

\* Metrics.DiskSpaceUsage; Levels is a sequence, level 0 first
RECURSIVE DiskSpaceUsageLevels(_, _, _)
DiskSpaceUsageLevels(m, n, usageBytes) ==
    IF n > Len(m.Levels) THEN usageBytes
    ELSE DiskSpaceUsageLevels(m, n + 1,
                              Unsigned(usageBytes + Unsigned(m.Levels[n].Size)))

\* faulty variant of DiskSpaceUsage: the zombie tables are left out
DiskSpaceUsageNoZombie(m) ==
    LET wal == Unsigned(Unsigned(0 + m.WAL.PhysicalSize)
                          + m.WAL.ObsoletePhysicalSize)
        lvl == DiskSpaceUsageLevels(m, 1, wal)
        tbl == Unsigned(lvl + m.Table.ObsoleteSize)
        prv == Unsigned(Unsigned(tbl + m.private.optionsFileSize)
                          + m.private.manifestFileSize)
    IN  Unsigned(prv + Unsigned(m.Compact.InProgressBytes))

DiskSpaceUsage(m) ==
    LET wal == Unsigned(Unsigned(0 + m.WAL.PhysicalSize)
                          + m.WAL.ObsoletePhysicalSize)
        lvl == DiskSpaceUsageLevels(m, 1, wal)
        tbl == Unsigned(Unsigned(lvl + m.Table.ObsoleteSize)
                          + m.Table.ZombieSize)
        prv == Unsigned(Unsigned(tbl + m.private.optionsFileSize)
                          + m.private.manifestFileSize)
    IN  Unsigned(prv + Unsigned(m.Compact.InProgressBytes))

\* Metrics.ReadAmp
RECURSIVE ReadAmpLevels(_, _, _)
ReadAmpLevels(m, n, ramp) ==
    IF n > Len(m.Levels) THEN ramp
    ELSE ReadAmpLevels(m, n + 1, Signed(ramp + m.Levels[n].Sublevels))

\* faulty variant of ReadAmp: every level with sublevels counts once
ReadAmpNonEmpty(m) ==
    Cardinality({ n \in 1 .. Len(m.Levels) : m.Levels[n].Sublevels > 0 })

ReadAmp(m) == ReadAmpLevels(m, 1, 0)

\* faulty variant of TotalLevels: the sublevels are not summed
RECURSIVE TotalLevelsNoSublevels(_, _, _)
TotalLevelsNoSublevels(m, n, total) ==
    IF n > Len(m.Levels) THEN total
    ELSE TotalLevelsNoSublevels(m, n + 1, Add(total, m.Levels[n]))

\* Metrics.Total: the loop over the levels, then the bytes written to the
\* WAL and the bytes ingested as the bytes-in, added to the bytes flushed
RECURSIVE TotalLevels(_, _, _)
TotalLevels(m, n, total) ==
    IF n > Len(m.Levels) THEN total
    ELSE LET l == m.Levels[n]
             added == Add(total, l)
         IN  TotalLevels(m, n + 1,
                 [added EXCEPT !.Sublevels = Signed(@ + l.Sublevels)])

Total(m) ==
    LET total == TotalLevels(m, 1, ZeroLevelMetrics)
        in == Unsigned(m.WAL.BytesWritten + total.BytesIngested)
    IN  [total EXCEPT !.BytesIn = in,
                      !.BytesFlushed = Unsigned(@ + in)]

\* LevelMetrics.format: the arguments of the row it prints, in the order of
\* the columns, with the score it is handed and, if the report has the
\* column, the size of the value blocks
Format(m, score, includeValueBlocksSize) ==
    LET row == [count |-> m.NumFiles, size |-> m.Size, score |-> score,
                in |-> m.BytesIn, ingestSize |-> m.BytesIngested,
                ingestCount |-> m.TablesIngested, moveSize |-> m.BytesMoved,
                moveCount |-> m.TablesMoved,
                writeSize |-> Unsigned(m.BytesFlushed + m.BytesCompacted),
                writeCount |-> Unsigned(m.TablesFlushed + m.TablesCompacted),
                read |-> m.BytesRead, rAmp |-> m.Sublevels,
                wAmp |-> WriteAmp(m)]
    IN  IF includeValueBlocksSize
        THEN <<row, m.Additional.ValueBlocksSize>>
        ELSE <<row>>

\* the score of a row that has none
notApplicable == "-"

\* Metrics.SafeFormat: whether a level has value blocks
HaveValueBlocks(m) ==
    \E level \in 1 .. Len(m.Levels) :
        m.Levels[level].Additional.ValueBlocksSize > 0

\* Metrics.SafeFormat: the loop over the levels, which prints the row of
\* each level and accumulates the total
RECURSIVE SafeFormatLevels(_, _, _)
SafeFormatLevels(m, n, total) ==
    IF n > Len(m.Levels) THEN total
    ELSE LET l == m.Levels[n]
             added == Add(total, l)
         IN  SafeFormatLevels(m, n + 1,
                 [added EXCEPT !.Sublevels = Signed(@ + l.Sublevels)])

\* faulty variant of SafeFormatTotal: the bytes-in of the total are not
\* added to its bytes flushed
SafeFormatTotalNotFlushed(m) ==
    LET total == SafeFormatLevels(m, 1, ZeroLevelMetrics)
    IN  [total EXCEPT
           !.BytesIn = Unsigned(m.WAL.BytesWritten + total.BytesIngested)]

\* Metrics.SafeFormat: the total it has accumulated when it prints the row
\* "total"
SafeFormatTotal(m) ==
    LET total == SafeFormatLevels(m, 1, ZeroLevelMetrics)
        withIn == [total EXCEPT
                     !.BytesIn = Unsigned(m.WAL.BytesWritten
                                            + total.BytesIngested)]
    IN  [withIn EXCEPT !.BytesFlushed = Unsigned(@ + withIn.BytesIn)]

\* Metrics.SafeFormat: the row "total" of the report
SafeFormat(m) ==
    [total |-> SafeFormatTotal(m),
     row |-> Format(SafeFormatTotal(m), notApplicable, HaveValueBlocks(m))]

\* the LevelMetrics probed: an empty level; a level 0 that was flushed and
\* ingested into; a level that was compacted into; a level whose counters
\* all differ; a level whose counters are at their largest
LevelFlushed ==
    [ZeroLevelMetrics EXCEPT
       !.Sublevels = 2, !.NumFiles = 3, !.Size = 70, !.Score = 25,
       !.BytesIn = 100, !.BytesIngested = 40, !.BytesFlushed = 50,
       !.TablesFlushed = 2, !.TablesIngested = 1,
       !.Additional.ValueBlocksSize = 5,
       !.Additional.BytesWrittenDataBlocks = 45]

LevelCompacted ==
    [ZeroLevelMetrics EXCEPT
       !.Sublevels = 1, !.NumFiles = 5, !.Size = 190, !.Score = 150,
       !.BytesIn = 50, !.BytesMoved = 11, !.BytesRead = 230,
       !.BytesCompacted = 200, !.TablesCompacted = 4, !.TablesMoved = 1,
       !.Additional.BytesWrittenDataBlocks = 180,
       !.Additional.BytesWrittenValueBlocks = 20]

LevelDistinct ==
    [Sublevels |-> 1, NumFiles |-> 2, Size |-> 3, Score |-> 4,
     BytesIn |-> 5, BytesIngested |-> 7, BytesMoved |-> 11, BytesRead |-> 13,
     BytesCompacted |-> 17, BytesFlushed |-> 19, TablesCompacted |-> 23,
     TablesFlushed |-> 29, TablesIngested |-> 31, TablesMoved |-> 37,
     Additional |-> [ValueBlocksSize |-> 41, BytesWrittenDataBlocks |-> 43,
                     BytesWrittenValueBlocks |-> 47]]

LevelFull ==
    [Sublevels |-> 1, NumFiles |-> Word \div 2 - 1, Size |-> Word \div 2 - 1,
     Score |-> 0, BytesIn |-> Word - 1, BytesIngested |-> Word - 1,
     BytesMoved |-> Word - 1, BytesRead |-> Word - 1,
     BytesCompacted |-> Word - 1, BytesFlushed |-> Word - 1,
     TablesCompacted |-> Word - 1, TablesFlushed |-> Word - 1,
     TablesIngested |-> Word - 1, TablesMoved |-> Word - 1,
     Additional |-> [ValueBlocksSize |-> Word - 1,
                     BytesWrittenDataBlocks |-> Word - 1,
                     BytesWrittenValueBlocks |-> Word - 1]]

LevelSamples ==
    { ZeroLevelMetrics, LevelFlushed, LevelCompacted, LevelDistinct,
      LevelFull }

\* the updates handed to Add: the metrics of a flush or a compaction, one of
\* them of a compaction that made the level smaller
LevelShrunk ==
    [LevelCompacted EXCEPT !.NumFiles = -2, !.Size = -60, !.Sublevels = 0]

UpdateSamples == { LevelDistinct, LevelFull, LevelShrunk }

\* the fields of Metrics that the functions modelled read, apart from
\* Levels: all zero; all different; at their largest; with a negative
\* count of bytes in progress
RestZero ==
    [WAL |-> [PhysicalSize |-> 0, ObsoletePhysicalSize |-> 0,
              BytesWritten |-> 0],
     Table |-> [ObsoleteSize |-> 0, ZombieSize |-> 0],
     private |-> [optionsFileSize |-> 0, manifestFileSize |-> 0],
     Compact |-> [InProgressBytes |-> 0]]

RestDistinct ==
    [WAL |-> [PhysicalSize |-> 1, ObsoletePhysicalSize |-> 2,
              BytesWritten |-> 100],
     Table |-> [ObsoleteSize |-> 4, ZombieSize |-> 8],
     private |-> [optionsFileSize |-> 16, manifestFileSize |-> 32],
     Compact |-> [InProgressBytes |-> 64]]

RestFull ==
    [WAL |-> [PhysicalSize |-> Word - 1, ObsoletePhysicalSize |-> Word - 1,
              BytesWritten |-> Word - 1],
     Table |-> [ObsoleteSize |-> Word - 1, ZombieSize |-> Word - 1],
     private |-> [optionsFileSize |-> Word - 1,
                  manifestFileSize |-> Word - 1],
     Compact |-> [InProgressBytes |-> Word \div 2 - 1]]

RestNegative == [RestDistinct EXCEPT !.Compact.InProgressBytes = -1]

RestSamples == { RestZero, RestDistinct, RestFull, RestNegative }

\* a Metrics: the levels, level 0 first, and the rest
MakeMetrics(levels, rest) ==
    [Levels |-> levels, WAL |-> rest.WAL, Table |-> rest.Table,
     private |-> rest.private, Compact |-> rest.Compact]

\* the levels two updates go to: the same level, or this one and the next
UpdateLevels ==
    { <<lu, lv>> \in (1 .. NumLevels) \X (1 .. NumLevels) :
        lv = lu \/ lv = (lu % NumLevels) + 1 }

InitMetrics ==
    /\ input = << >>
    /\ elideTombstone = [k \in UserKeys |-> FALSE]
    /\ i = [iter |-> 0, err |-> NoError, key |-> NilKey, value |-> NilValue,
            valid |-> FALSE, skip |-> FALSE]
    /\ out = << >>
    /\ ret = "none"
    /\ firstCalls = 0
    /\ iterErr = NoError
    /\ \E levels \in [1 .. NumLevels -> LevelSamples], rest \in RestSamples,
          u \in UpdateSamples, v \in UpdateSamples, l \in UpdateLevels :
          probe = [op |-> "new", m |-> MakeMetrics(levels, rest),
                   u |-> u, v |-> v, lu |-> l[1], lv |-> l[2]]

\* the probe after a function was applied: what it was applied to, and what
\* the function returned
Returns(op, result) ==
    [op |-> op, m |-> probe.m, u |-> probe.u, v |-> probe.v,
     lu |-> probe.lu, lv |-> probe.lv, result |-> result]

\* m.Total(), and WriteAmp() of the total
CallTotal ==
    /\ probe.op = "new"
    /\ LET total == Total(probe.m)
       IN  probe' = Returns("Total", [total |-> total,
                                      writeAmp |-> WriteAmp(total),
                                      m |-> probe.m])
    /\ UNCHANGED <<input, elideTombstone, i, out, ret, firstCalls, iterErr>>

\* WriteAmp() of the level lu, as it is or after Add(u)
CallWriteAmp ==
    /\ probe.op = "new"
    /\ \E l \in { probe.m.Levels[probe.lu],
                   Add(probe.m.Levels[probe.lu], probe.u) } :
          probe' = Returns("WriteAmp", [of |-> l, writeAmp |-> WriteAmp(l)])
    /\ UNCHANGED <<input, elideTombstone, i, out, ret, firstCalls, iterErr>>

\* m.ReadAmp()
CallReadAmp ==
    /\ probe.op = "new"
    /\ probe' = Returns("ReadAmp", ReadAmp(probe.m))
    /\ UNCHANGED <<input, elideTombstone, i, out, ret, firstCalls, iterErr>>

\* m.DiskSpaceUsage()
CallDiskSpaceUsage ==
    /\ probe.op = "new"
    /\ probe' = Returns("DiskSpaceUsage", DiskSpaceUsage(probe.m))
    /\ UNCHANGED <<input, elideTombstone, i, out, ret, firstCalls, iterErr>>

\* the levels after Levels[l].Add(u)
AddTo(levels, l, u) == [levels EXCEPT ![l] = Add(@, u)]

\* Levels[lu].Add(u) and Levels[lv].Add(v), in this order and in the other:
\* the levels after the first Add (first), after both (uv), and after both
\* in the other order (vu), and after Levels[lu].Add(w) where w is u after
\* u.Add(v) (grouped); u is what the first Add leaves of its argument
CallAdd ==
    /\ probe.op = "new"
    /\ LET first == AddTo(probe.m.Levels, probe.lu, probe.u)
       IN  probe' = Returns("Add",
                        [first |-> first,
                         u |-> probe.u,
                         uv |-> AddTo(first, probe.lv, probe.v),
                         vu |-> AddTo(AddTo(probe.m.Levels, probe.lv, probe.v),
                                      probe.lu, probe.u),
                         grouped |-> AddTo(probe.m.Levels, probe.lu,
                                           Add(probe.u, probe.v))])
    /\ UNCHANGED <<input, elideTombstone, i, out, ret, firstCalls, iterErr>>

\* m.SafeFormat(w)
CallSafeFormat ==
    /\ probe.op = "new"
    /\ probe' = Returns("SafeFormat", SafeFormat(probe.m))
    /\ UNCHANGED <<input, elideTombstone, i, out, ret, firstCalls, iterErr>>

StepMetrics ==
    \/ CallTotal
    \/ CallWriteAmp
    \/ CallReadAmp
    \/ CallDiskSpaceUsage
    \/ CallAdd
    \/ CallSafeFormat

SpecMetrics == InitMetrics /\ [][StepMetrics]_vars

\* ------------------------------------------------- what the claims speak of
\* a full iteration of a new iterator: First(), then Next() until it
\* returned false, and no error
Completed == firstCalls = 1 /\ ret = "false" /\ i.err = NoError

\* the records of user key k in a sequence of records, in order
OfKey(recs, k) == SelectSeq(recs, LAMBDA r : r.key.UserKey = k)

\* the snapshot lists the database may hold while the compaction runs; the
\* iterator is not given one
SnapshotLists == { S \in SUBSET SeqNums : Cardinality(S) <= MaxSnapshots }

\* the stripe of a sequence number under the snapshots S: 0 is the oldest
\* stripe (-inf, s_1], and stripe j is (s_j, s_j+1]
Stripe(S, seq) == Cardinality({ s \in S : s < seq })

Stripes(S) == 0 .. Cardinality(S)

\* the records of user key k in stripe st
OfStripe(S, recs, k, st) ==
    SelectSeq(recs,
              LAMBDA r : r.key.UserKey = k /\ Stripe(S, SeqNum(r.key)) = st)

IsKind(r, kind) == Kind(r.key) = kind

\* the number of Merge records a sequence of records begins with
RECURSIVE MergePrefix(_)
MergePrefix(recs) ==
    IF recs = << >> \/ ~IsKind(recs[1], InternalKeyKindMerge) THEN 0
    ELSE 1 + MergePrefix(Tail(recs))

\* merge(k, m_n, merge(k, m_n-1, ... merge(k, m_2, m_1))) of a non-empty chain
RECURSIVE Fold(_, _)
Fold(k, chain) ==
    IF Len(chain) = 1 THEN chain[1].value
    ELSE Merge(k, chain[1].value, Fold(k, Tail(chain)))

\* the value a read sees for a user key whose records, newest first, are
\* recs: a Set yields its value, a Delete yields absent, a Merge combines its
\* operand with what the older records yield; other kinds are not data
Absent == [present |-> FALSE, value |-> << >>]

RECURSIVE Visible(_, _)
Visible(k, recs) ==
    IF recs = << >> THEN Absent
    ELSE IF IsKind(recs[1], InternalKeyKindSet)
         THEN [present |-> TRUE, value |-> recs[1].value]
    ELSE IF IsKind(recs[1], InternalKeyKindDelete) THEN Absent
    ELSE IF IsKind(recs[1], InternalKeyKindMerge)
         THEN LET older == Visible(k, Tail(recs))
              IN  [present |-> TRUE,
                   value |-> IF older.present
                             THEN Merge(k, recs[1].value, older.value)
                             ELSE recs[1].value]
    ELSE Visible(k, Tail(recs))

\* the older records of user key k that may lie in lower levels, outside
\* the compaction: none when elideTombstone(k) holds
RECURSIVE LowerRecords(_, _)
LowerRecords(k, n) ==
    IF n = 0 THEN { << >> }
    ELSE LET shorter == LowerRecords(k, n - 1)
         IN  shorter \cup
             { <<Entry(k, 0, kd)>> \o s :
                 kd \in { InternalKeyKindDelete, InternalKeyKindSet,
                          InternalKeyKindMerge },
                 s \in shorter }

LowerLevels(k) ==
    IF elideTombstone[k] THEN { << >> } ELSE LowerRecords(k, MaxLower)

\* ------------------------------------------------------------------ claims
\* C1: with no snapshots (the iterator is given none), for every user key
\* k and every sequence L of older records of k in lower levels (none when
\* elideTombstone(k)), a read of the iterator's output followed by L sees
\* the value that a read of the input followed by L sees.
C1_PreservesVisibleState ==
    Completed =>
        \A k \in UserKeys : \A L \in LowerLevels(k) :
            Visible(k, OfKey(out, k) \o L) = Visible(k, OfKey(input, k) \o L)

\* C2: with no snapshots (the iterator is given none), when the newest
\* input record of a user key is a
\* Set, the iterator returns that Set, with its own sequence number and
\* value, and no other record of that user key: nothing else at any time,
\* and exactly that Set once the iteration is complete.
C2_SetShadowing ==
    \A k \in UserKeys :
        LET recs == OfKey(input, k)
        IN  (recs # << >> /\ IsKind(recs[1], InternalKeyKindSet)) =>
                /\ OfKey(out, k) \in { << >>, <<recs[1]>> }
                /\ Completed => OfKey(out, k) = <<recs[1]>>

C2_Witness ==
    /\ Completed
    /\ \E k \in UserKeys :
         LET recs == OfKey(input, k)
         IN  /\ Len(recs) >= 2
             /\ IsKind(recs[1], InternalKeyKindSet)
             /\ OfKey(out, k) = <<recs[1]>>

\* C3: with no snapshots (the iterator is given none), when the newest
\* input record of a user key k is a
\* Delete: if elideTombstone(k) is false the iterator returns exactly that
\* Delete and no older record of k; if it is true the iterator returns no
\* record of k at all, and goes on with the next user key.
C3_DeleteRule ==
    \A k \in UserKeys :
        LET recs == OfKey(input, k)
        IN  (recs # << >> /\ IsKind(recs[1], InternalKeyKindDelete)) =>
                IF elideTombstone[k]
                THEN OfKey(out, k) = << >>
                ELSE /\ OfKey(out, k) \in { << >>, <<recs[1]>> }
                     /\ Completed => OfKey(out, k) = <<recs[1]>>

C3_Witness ==
    /\ Completed
    /\ \E k \in UserKeys, k2 \in UserKeys :
         LET recs == OfKey(input, k)
         IN  /\ Len(recs) >= 2
             /\ IsKind(recs[1], InternalKeyKindDelete)
             /\ elideTombstone[k]
             /\ k2 > k
             /\ Len(OfKey(out, k2)) = 1
             /\ OfKey(out, k) = << >>

\* the records a sequence holds
Range(recs) == { recs[j] : j \in 1 .. Len(recs) }

\* the chain of Merge records a non-empty group of records begins with
Chain(g) == SubSeq(g, 1, MergePrefix(g))

\* C4: for a chain of Merge records m_n .. m_1 of one user key k that is
\* all of k's records in one stripe (it ends at a key change, a stripe
\* boundary or the end of the input), the iterator returns, for k in that
\* stripe, the single record Merge with the sequence number of m_n and the
\* value merge(k, m_n, merge(k, m_n-1, ... merge(k, m_2, m_1))).
C4_MergeFold ==
    Completed =>
        \A S \in SnapshotLists : \A k \in UserKeys : \A st \in Stripes(S) :
            LET g == OfStripe(S, input, k, st)
            IN  (g # << >> /\ MergePrefix(g) = Len(g)) =>
                    OfStripe(S, out, k, st) =
                        <<[key |-> g[1].key, value |-> Fold(k, g)]>>

\* C5: when the records of user key k in one stripe begin with a chain of
\* Merge records followed by a Set, the iterator returns exactly one record
\* for k in that stripe: a Set with the sequence number of the newest Merge
\* and the value merge(k, accumulated, set_value); nothing older than the
\* Set is merged in or returned.
C5_SetBarrier ==
    Completed =>
        \A S \in SnapshotLists : \A k \in UserKeys : \A st \in Stripes(S) :
            LET g == OfStripe(S, input, k, st)
                n == MergePrefix(g)
            IN  (n >= 1 /\ Len(g) > n /\ IsKind(g[n + 1], InternalKeyKindSet))
                =>  OfStripe(S, out, k, st) =
                        <<[key |-> SetKind(g[1].key, InternalKeyKindSet),
                           value |-> Merge(k, Fold(k, Chain(g)),
                                           g[n + 1].value)]>>

\* C6: when the records of user key k in one stripe begin with a chain of
\* Merge records followed by a Delete, the iterator returns exactly one
\* record for k in that stripe: a Merge with the sequence number of the
\* newest Merge and the accumulated value; the Delete and everything older
\* in the stripe are neither returned nor merged in.
C6_MergeThenDelete ==
    Completed =>
        \A S \in SnapshotLists : \A k \in UserKeys : \A st \in Stripes(S) :
            LET g == OfStripe(S, input, k, st)
                n == MergePrefix(g)
            IN  (n >= 1 /\ Len(g) > n
                   /\ IsKind(g[n + 1], InternalKeyKindDelete))
                =>  OfStripe(S, out, k, st) =
                        <<[key |-> g[1].key, value |-> Fold(k, Chain(g))]>>

\* the rules for the records g of user key k in stripe st, applied to that
\* stripe alone
StripeRule(k, st, g) ==
    LET n == MergePrefix(g)
    IN  IF g = << >> THEN << >>
        ELSE IF IsKind(g[1], InternalKeyKindSet) THEN <<g[1]>>
        ELSE IF IsKind(g[1], InternalKeyKindDelete)
             THEN IF elideTombstone[k] /\ st = 0 THEN << >> ELSE <<g[1]>>
        ELSE IF Len(g) > n /\ IsKind(g[n + 1], InternalKeyKindSet)
             THEN <<[key |-> SetKind(g[1].key, InternalKeyKindSet),
                     value |-> Merge(k, Fold(k, Chain(g)), g[n + 1].value)]>>
        ELSE <<[key |-> g[1].key, value |-> Fold(k, Chain(g))]>>

DataKinds ==
    { InternalKeyKindDelete, InternalKeyKindSet, InternalKeyKindMerge }

\* C7: with a non-empty snapshot list, a Set, a Delete or a Merge collapse
\* of user key k shadows or absorbs only older records of k in its own
\* stripe: for every user key and stripe, the records returned for that
\* stripe are what the rules give on the input records of that stripe alone.
C7_SnapshotStripes ==
    (Completed /\ \A r \in Range(input) : Kind(r.key) \in DataKinds)
    =>  \A S \in SnapshotLists \ { {} } :
            \A k \in UserKeys : \A st \in Stripes(S) :
                OfStripe(S, out, k, st) =
                    StripeRule(k, st, OfStripe(S, input, k, st))

\* C8: a Delete of the input that no newer record of its user key in its
\* stripe shadows is left out of the output if and only if it lies in the
\* oldest stripe and elideTombstone holds for its user key.
C8_TombstoneElision ==
    Completed =>
        \A S \in SnapshotLists : \A r \in Range(input) :
            LET k == r.key.UserKey
                st == Stripe(S, SeqNum(r.key))
            IN  (IsKind(r, InternalKeyKindDelete)
                   /\ OfStripe(S, input, k, st)[1] = r)
                =>  (r \notin Range(out) <=> (st = 0 /\ elideTombstone[k]))

\* key a is not after key b by (user key, -sequence number, -kind)
NotAfter(a, b) ==
    \/ a.UserKey < b.UserKey
    \/ /\ a.UserKey = b.UserKey
       /\ \/ SeqNum(a) > SeqNum(b)
          \/ SeqNum(a) = SeqNum(b) /\ Kind(a) >= Kind(b)

\* C9: the records returned by First() and the Next() calls after it are in
\* non-decreasing order by (user key, -sequence number, -kind), also when a
\* collapsed Merge was returned as a Set.
C9_OrderPreservation ==
    \A j \in 1 .. Len(out) - 1 : NotAfter(out[j].key, out[j + 1].key)

C9_Witness ==
    /\ Completed
    /\ Len(out) >= 2
    /\ \E j \in 1 .. Len(out) :
         /\ IsKind(out[j], InternalKeyKindSet)
         /\ \A r \in Range(input) : r.key # out[j].key

\* C10: the records returned by one iteration never hold two records of the
\* same user key in the same snapshot stripe; with no snapshots, never two
\* records of the same user key.
C10_OnePerKeyAndStripe ==
    \A S \in SnapshotLists :
        \A a \in 1 .. Len(out) : \A b \in 1 .. Len(out) :
            (a # b /\ out[a].key.UserKey = out[b].key.UserKey)
            =>  Stripe(S, SeqNum(out[a].key)) # Stripe(S, SeqNum(out[b].key))

C10_Witness ==
    /\ Completed
    /\ Len(out) >= 2
    /\ \E S \in SnapshotLists \ { {} } :
         \E k \in UserKeys : \E st \in Stripes(S) :
             /\ Len(OfStripe(S, input, k, st)) >= 2
             /\ Len(OfStripe(S, out, k, st)) = 1

\* the kinds Next and mergeNext have a case for
HandledKinds ==
    { InternalKeyKindDelete, InternalKeyKindSet, InternalKeyKindMerge }

\* C11: a call records an error only when the input is at a record whose kind
\* has no case, and that call adds no return; once an error is recorded,
\* every call leaves the input where it is, returns nothing more (Next
\* returns false), and Error() and Close() keep returning the first error.
C11_ErrorLatching ==
    [][ /\ (Error(i) = NoError /\ Error(i') # NoError) =>
              /\ ret' = "false"
              /\ IterValid(i'.iter)
              /\ Kind(IterKey(i'.iter)) \notin HandledKinds
        /\ Error(i) # NoError =>
              /\ Error(i') = Error(i)
              /\ Close(i') = Error(i)
              /\ i'.iter = i.iter
              /\ ret' = "false"
              /\ out' = out ]_vars

\* an error recorded by the merge loop, after at least one record was
\* returned
C11_Witness ==
    /\ Error(i) # NoError
    /\ Kind(i.key) = InternalKeyKindMerge
    /\ i.iter > 1
    /\ out # << >>
    /\ firstCalls = 2
    /\ ret = "false"

\* C12: when Next() has returned false because the input iterator stopped
\* being valid with an error, Error() of the compaction iterator returns an
\* error.
C12_UpstreamError ==
    ( /\ firstCalls >= 1
      /\ ret = "false"
      /\ ~IterValid(i.iter)
      /\ IterError(i.iter) # NoError ) => Error(i) # NoError

\* an error is recorded and the input is at a record of this kind
ErrorAt(kind) ==
    /\ Error(i) # NoError
    /\ IterValid(i.iter)
    /\ Kind(IterKey(i.iter)) = kind

\* a record of this kind was returned
Returned(kind) == \E j \in 1 .. Len(out) : Kind(out[j].key) = kind

\* C13: a RangeDelete record of the input is never returned and never makes
\* the iterator record an error: the iteration goes on past it.
C13_RangeDelete ==
    /\ ~Returned(InternalKeyKindRangeDelete)
    /\ ~ErrorAt(InternalKeyKindRangeDelete)

\* C14: a LogData record of the input is never returned and never makes the
\* iterator record an error, in Next or in the merge loop: the iteration
\* goes on past it.
C14_LogData ==
    /\ ~Returned(InternalKeyKindLogData)
    /\ ~ErrorAt(InternalKeyKindLogData)

\* the batch bit of a sequence number is set
IsBatch(seq) == (seq \div InternalKeySeqNumBatch) % 2 = 1

\* C15: a record of the input whose sequence number has the batch bit set
\* is returned with its key, kind and value as they are in the input: a
\* returned record with such a sequence number is a record of the input,
\* and an iteration that has ended has returned every such record.
C15_BatchImmunity ==
    /\ \A j \in 1 .. Len(out) :
          IsBatch(SeqNum(out[j].key)) =>
              \E p \in 1 .. Len(input) : input[p] = out[j]
    /\ Completed =>
          \A p \in 1 .. Len(input) :
              IsBatch(SeqNum(input[p].key)) =>
                  \E j \in 1 .. Len(out) : out[j] = input[p]

\* C16: a key encoded into a buffer of Size() bytes and decoded from it has
\* the user key and the trailer it had, whatever the length of the user
\* key.
C16_RoundTrip ==
    (probe.op = "decoded" /\ probe.raw = probe.buf) =>
        /\ Len(probe.buf) = Size(probe.a)
        /\ probe.decoded.UserKey = probe.a.UserKey
        /\ probe.decoded.trailer = probe.a.trailer

\* a key with the longest user key and the largest trailer, decoded from
\* its encoding
C16_Witness ==
    /\ probe.op = "decoded"
    /\ probe.raw = probe.buf
    /\ Len(probe.a.UserKey) = MaxKeyLen
    /\ probe.a.trailer =
          InternalKeySeqNumMax * 256 + InternalKeyKindInvalid
    /\ probe.decoded = probe.a

\* C17: on valid keys, and with a comparator that is a total order of the
\* user keys, InternalCompare is a strict total order: the result for (b, x)
\* is the negation of the result for (x, b), x before b and b before c has
\* x before c, and the result is 0 only for keys of equal user key and equal
\* trailer.
C17_CompareTotality ==
    (probe.op = "compared" /\ Valid(probe.x) /\ Valid(probe.b)) =>
        /\ probe.xb \in { -1, 0, 1 }
        /\ probe.xb = - probe.bx
        /\ (probe.xb < 0 /\ probe.bc < 0) => probe.xc < 0
        /\ probe.xb = 0 =>
              /\ probe.x.UserKey = probe.b.UserKey
              /\ probe.x.trailer = probe.b.trailer

\* three valid keys in order under the reverse comparator, the first two of
\* different user keys
C17_Witness ==
    /\ probe.op = "compared"
    /\ probe.userCmp = "reverse"
    /\ Valid(probe.x) /\ Valid(probe.b)
    /\ probe.x.UserKey # probe.b.UserKey
    /\ probe.b.UserKey = probe.c.UserKey
    /\ probe.xb < 0 /\ probe.bc < 0 /\ probe.xc < 0

\* the order of two valid keys that the documentation gives: the user keys
\* as the comparator has them, then the larger sequence number first, then
\* the larger kind first
KeyOrder(cmp, a, b) ==
    IF cmp[a.UserKey, b.UserKey] # 0 THEN cmp[a.UserKey, b.UserKey]
    ELSE IF SeqNum(a) > SeqNum(b) THEN -1
    ELSE IF SeqNum(a) < SeqNum(b) THEN 1
    ELSE IF Kind(a) > Kind(b) THEN -1
    ELSE IF Kind(a) < Kind(b) THEN 1
    ELSE 0

\* C18: InternalCompare orders valid keys by user key ascending, then by
\* sequence number descending, then by kind descending; so a key of kind
\* InternalKeyKindMax is not after any valid key of its user key and
\* sequence number.
C18_InternalKeyOrder ==
    (probe.op = "compared" /\ Valid(probe.x) /\ Valid(probe.b)) =>
        /\ probe.xb = KeyOrder(UserCmp(probe.userCmp), probe.x, probe.b)
        /\ ( /\ Kind(probe.x) = InternalKeyKindMax
             /\ probe.x.UserKey = probe.b.UserKey
             /\ SeqNum(probe.x) = SeqNum(probe.b) ) => probe.xb <= 0

\* a key of kind InternalKeyKindMax before the Set of its user key and
\* sequence number
C18_Witness ==
    /\ probe.op = "compared"
    /\ Kind(probe.x) = InternalKeyKindMax
    /\ Kind(probe.b) = InternalKeyKindSet
    /\ probe.x.UserKey = probe.b.UserKey
    /\ SeqNum(probe.x) = SeqNum(probe.b)
    /\ probe.xb = -1

\* C19: a key is invalid when its kind byte is above InternalKeyKindMax, be
\* it 0xff or not, and so is every key decoded from fewer than 8 bytes;
\* InternalCompare has every invalid key strictly before every valid key,
\* whatever their user keys and sequence numbers.
C19_InvalidFirst ==
    probe.op = "compared" =>
        /\ probe.short => Kind(probe.x) > InternalKeyKindMax
        /\ Valid(probe.x) <=> Kind(probe.x) <= InternalKeyKindMax
        /\ (Kind(probe.x) > InternalKeyKindMax
               /\ Kind(probe.b) <= InternalKeyKindMax) =>
              (probe.xb = -1 /\ probe.bx = 1)

\* an invalid key whose kind is not 0xff, of greater user key and smaller
\* sequence number than the valid key it is compared with
C19_Witness ==
    /\ probe.op = "compared"
    /\ Kind(probe.x) = InternalKeyKindMax + 1
    /\ Valid(probe.b)
    /\ UserCmp(probe.userCmp)[probe.x.UserKey, probe.b.UserKey] > 0
    /\ SeqNum(probe.x) < SeqNum(probe.b)
    /\ probe.xb = -1 /\ probe.bx = 1

\* C20: for two invalid keys InternalCompare returns what the comparator it
\* was handed returns for their user keys, whichever comparator that is.
C20_BothInvalid ==
    ( /\ probe.op = "compared"
      /\ ~Valid(probe.x)
      /\ ~Valid(probe.b) ) =>
        probe.xb = UserCmp(probe.userCmp)[probe.x.UserKey, probe.b.UserKey]

\* the counters of a LevelMetrics that Add sums: the unsigned ones and the
\* signed ones
UnsignedCounters ==
    { "BytesIn", "BytesIngested", "BytesMoved", "BytesRead",
      "BytesCompacted", "BytesFlushed", "TablesCompacted", "TablesFlushed",
      "TablesIngested", "TablesMoved", "ValueBlocksSize",
      "BytesWrittenDataBlocks", "BytesWrittenValueBlocks" }

SignedCounters == { "NumFiles", "Size" }

\* the field f of a LevelMetrics, be it one of Additional or not
Field(m, f) == IF f \in DOMAIN m THEN m[f] ELSE m.Additional[f]

\* the sum of the field f over a sequence of LevelMetrics, as a number
RECURSIVE SumOver(_, _)
SumOver(levels, f) ==
    IF levels = << >> THEN 0
    ELSE Field(Head(levels), f) + SumOver(Tail(levels), f)

\* two float64 are equal
SameQuotient(p, q) == p.num * q.den = q.num * p.den

\* C21: Total() has in every summed counter the sum of the counter over the
\* levels, in the width of the counter, and in Sublevels the sum of the
\* sublevels; but its BytesIn is the bytes written to the WAL plus the sum
\* of BytesIngested, and its BytesFlushed is the sum of BytesFlushed plus
\* that BytesIn.
C21_TotalRow ==
    probe.op = "Total" =>
        LET total == probe.result.total
            levels == probe.m.Levels
            in == Unsigned(probe.m.WAL.BytesWritten
                             + SumOver(levels, "BytesIngested"))
        IN  /\ \A f \in UnsignedCounters \ { "BytesIn", "BytesFlushed" } :
                  Field(total, f) = Unsigned(SumOver(levels, f))
            /\ \A f \in SignedCounters :
                  Field(total, f) = Signed(SumOver(levels, f))
            /\ total.Sublevels = Signed(SumOver(levels, "Sublevels"))
            /\ total.BytesIn = in
            /\ total.BytesFlushed =
                  Unsigned(SumOver(levels, "BytesFlushed") + in)

\* the example of the documentation: 100 bytes written to the WAL, 40
\* ingested, 50 flushed, 200 compacted give 140 bytes in, 190 flushed and a
\* write amplification of 390/140
C21_Witness ==
    /\ probe.op = "Total"
    /\ probe.m.WAL.BytesWritten = 100
    /\ SumOver(probe.m.Levels, "BytesIngested") = 40
    /\ SumOver(probe.m.Levels, "BytesFlushed") = 50
    /\ SumOver(probe.m.Levels, "BytesCompacted") = 200
    /\ probe.result.total.BytesIn = 140
    /\ probe.result.total.BytesFlushed = 190
    /\ probe.result.total.Sublevels = 3
    /\ SameQuotient(probe.result.writeAmp, Quotient(390, 140))

\* C22 as it is stated: WriteAmp() is 0 when BytesIn is 0, and else the
\* quotient of the sum of BytesFlushed and BytesCompacted, as a number, and
\* BytesIn.
C22_WriteAmpTrueSum ==
    probe.op = "WriteAmp" =>
        LET l == probe.result.of
        IN  SameQuotient(probe.result.writeAmp,
                IF l.BytesIn = 0 THEN Quotient(0, 1)
                ELSE Quotient(l.BytesFlushed + l.BytesCompacted, l.BytesIn))

\* C22: WriteAmp() is 0 when BytesIn is 0, and else the quotient of the sum
\* of BytesFlushed and BytesCompacted, reduced to the width of the counters,
\* and BytesIn.
C22_WriteAmp ==
    probe.op = "WriteAmp" =>
        LET l == probe.result.of
        IN  SameQuotient(probe.result.writeAmp,
                IF l.BytesIn = 0 THEN Quotient(0, 1)
                ELSE Quotient((l.BytesFlushed + l.BytesCompacted) % Word,
                              l.BytesIn))

\* a level whose bytes flushed and bytes compacted sum up to more than a
\* counter holds
C22_Witness ==
    /\ probe.op = "WriteAmp"
    /\ probe.result.of.BytesIn > 0
    /\ probe.result.of.BytesFlushed > 0
    /\ probe.result.of.BytesFlushed + probe.result.of.BytesCompacted >= Word
    /\ probe.result.writeAmp.num < probe.result.of.BytesCompacted

\* the levels below level 0 that hold files
NonEmptyLower(m) == { n \in 2 .. Len(m.Levels) : m.Levels[n].NumFiles > 0 }

\* every level below level 0 has one sublevel if it holds files and none
\* if it is empty
LowerSublevels(m) ==
    \A n \in 2 .. Len(m.Levels) :
        m.Levels[n].Sublevels = IF n \in NonEmptyLower(m) THEN 1 ELSE 0

\* C23: ReadAmp() is the sum of Sublevels over the levels; where every level
\* below level 0 has one sublevel if it holds files and none if not, that
\* is the sublevels of level 0 plus the number of levels below it that hold
\* files.
C23_ReadAmp ==
    probe.op = "ReadAmp" =>
        /\ probe.result = SumOver(probe.m.Levels, "Sublevels")
        /\ LowerSublevels(probe.m) =>
              probe.result = probe.m.Levels[1].Sublevels
                               + Cardinality(NonEmptyLower(probe.m))

\* a level 0 of two sublevels above an empty level and a level with files
C23_Witness ==
    /\ probe.op = "ReadAmp"
    /\ LowerSublevels(probe.m)
    /\ probe.m.Levels[1].Sublevels = 2
    /\ probe.m.Levels[2].NumFiles = 0
    /\ Cardinality(NonEmptyLower(probe.m)) = NumLevels - 2
    /\ probe.result = NumLevels

\* no level has a negative size and the bytes in progress are not negative
NonNegativeSizes(m) ==
    /\ \A n \in 1 .. Len(m.Levels) : m.Levels[n].Size >= 0
    /\ m.Compact.InProgressBytes >= 0

\* the bytes on disk that a Metrics tells of, as a number
DiskBytes(m) ==
    m.WAL.PhysicalSize + m.WAL.ObsoletePhysicalSize + SumOver(m.Levels, "Size")
      + m.Table.ObsoleteSize + m.Table.ZombieSize
      + m.private.optionsFileSize + m.private.manifestFileSize
      + m.Compact.InProgressBytes

\* C24: a call of DiskSpaceUsage() leaves the Metrics as it is, and on a
\* Metrics without negative sizes returns the sum, in the width of its
\* unsigned result, of the physical and the obsolete physical size of the
\* WAL, the sizes of the levels, the sizes of the obsolete and the zombie
\* tables, the sizes of the options file and the manifest, and the bytes of
\* the compactions in progress.
C24_DiskSpaceUsage ==
    [][ probe'.op = "DiskSpaceUsage" =>
          /\ probe'.m = probe.m
          /\ NonNegativeSizes(probe.m) =>
                probe'.result = DiskBytes(probe.m) % Word ]_vars

\* a Metrics whose sizes all differ and sum up to less than a counter holds
C24_Witness ==
    /\ probe.op = "DiskSpaceUsage"
    /\ NonNegativeSizes(probe.m)
    /\ probe.m.Table.ZombieSize = 8
    /\ probe.m.Levels[1].Size = 70
    /\ probe.m.Levels[2].Size = 190
    /\ DiskBytes(probe.m) < Word
    /\ probe.result = DiskBytes(probe.m)

\* C25: two updates applied with Add give the same levels in either order,
\* be they added to the same level or to two levels; added to the same
\* level one after the other they give what their sum gives.
C25_AddCommutes ==
    probe.op = "Add" =>
        /\ probe.result.uv = probe.result.vu
        /\ probe.lu = probe.lv => probe.result.uv = probe.result.grouped

\* two different updates added to one level that held files
C25_Witness ==
    /\ probe.op = "Add"
    /\ probe.lu = probe.lv
    /\ probe.u # probe.v
    /\ probe.m.Levels[probe.lu].Size > 0
    /\ probe.result.uv # probe.result.first
    /\ probe.result.uv = probe.result.vu

\* C26: m.Add(u) adds to every summed counter of m the counter of u, in the
\* width of the counter, leaves the Sublevels and the Score of m, the other
\* levels, and u as they are.
C26_AddFieldwise ==
    probe.op = "Add" =>
        LET before == probe.m.Levels[probe.lu]
            after == probe.result.first[probe.lu]
        IN  /\ \A f \in UnsignedCounters :
                  Field(after, f) =
                      (Field(before, f) + Field(probe.u, f)) % Word
            /\ \A f \in SignedCounters :
                  Field(after, f) =
                      Signed(Field(before, f) + Field(probe.u, f))
            /\ after.Sublevels = before.Sublevels
            /\ after.Score = before.Score
            /\ \A n \in 1 .. NumLevels :
                  n # probe.lu => probe.result.first[n] = probe.m.Levels[n]
            /\ probe.result.u = probe.u

\* an update with sublevels, a score and counters that all differ, added to
\* a level with two sublevels
C26_Witness ==
    /\ probe.op = "Add"
    /\ probe.u = LevelDistinct
    /\ probe.m.Levels[probe.lu] = LevelFlushed
    /\ probe.result.first[probe.lu].Sublevels = 2
    /\ probe.result.first[probe.lu].BytesMoved = 11
    /\ probe.result.first[probe.lu].BytesFlushed = 69

\* the positions of the input records that have the user key and the
\* sequence number of the record r
SourceOf(r) ==
    { p \in 1 .. Len(input) :
        /\ input[p].key.UserKey = r.key.UserKey
        /\ SeqNum(input[p].key) = SeqNum(r.key) }

\* the Merge at position p is followed, behind Merge records only, by a Set
\* of its user key in its stripe
AbsorbsSet(S, p) ==
    \E q \in p + 1 .. Len(input) :
        /\ input[q].key.UserKey = input[p].key.UserKey
        /\ IsKind(input[q], InternalKeyKindSet)
        /\ Stripe(S, SeqNum(input[q].key)) = Stripe(S, SeqNum(input[p].key))
        /\ \A x \in p + 1 .. q - 1 : IsKind(input[x], InternalKeyKindMerge)

\* the records returned are a restriction of the input under the snapshots
\* S
Restriction(S) ==
    /\ \A j \in 1 .. Len(out) :
          \E p \in SourceOf(out[j]) :
              /\ \/ Kind(out[j].key) = Kind(input[p].key)
                 \/ /\ IsKind(input[p], InternalKeyKindMerge)
                    /\ IsKind(out[j], InternalKeyKindSet)
                    /\ AbsorbsSet(S, p)
              /\ Kind(input[p].key) \in
                     { InternalKeyKindSet, InternalKeyKindDelete }
                   => out[j] = input[p]
    /\ \A j1 \in 1 .. Len(out) : \A j2 \in j1 + 1 .. Len(out) :
          \A p1 \in SourceOf(out[j1]) : \A p2 \in SourceOf(out[j2]) :
              p1 < p2

\* C27: every record returned has the user key and the sequence number of a
\* record of the input, the records returned are in the order of those
\* input records, a record returned has the kind of its input record, but
\* that a Merge may be returned as a Set when it absorbed a Set of its user
\* key in its stripe, and a Set or a Delete is returned as it is in the
\* input.
C27_OutputRestriction == \A S \in SnapshotLists : Restriction(S)

\* a new compactionIter
NewIter ==
    [iter |-> 0, err |-> NoError, key |-> NilKey, value |-> NilValue,
     valid |-> FALSE, skip |-> FALSE]

\* C28: a call of First() on an iterator with no error recorded returns
\* what First() returns on a new iterator over the input, and leaves the
\* iterator at the same record, with the same key, kind and value.
C28_FirstRepositions ==
    [][ (CallFirst /\ Error(i) = NoError) =>
          LET fresh == First(NewIter)
          IN  /\ ret' = IF fresh.ret THEN "true" ELSE "false"
              /\ IsValid(i') = IsValid(fresh.i)
              /\ fresh.ret => Emitted(i') = Emitted(fresh.i) ]_vars

\* C29: after a call of Next(), Valid() is true if and only if the call
\* returned true: it is false when the input has ended and when the call
\* recorded an error, be it in the merge loop.
C29_ValidAgrees == ret # "none" => (IsValid(i) <=> ret = "true")

\* the records of the input that the iterator is done with: those before
\* its position, and the one at its position when that one was returned
\* (a skip is pending)
Consumed(s) == IF s.skip /\ IterValid(s.iter) THEN s.iter ELSE s.iter - 1

\* C30: a call of Next() never moves the input backwards nor beyond its
\* end, and a call that returns true is done with more records of the input
\* than the iterator was before; so after First() at most as many calls
\* return true as the input has records, and the next one returns false.
C30_ForwardOnly ==
    [][ CallNext =>
          /\ i'.iter >= i.iter
          /\ i'.iter <= Len(input) + 1
          /\ Consumed(i') <= Len(input)
          /\ Len(out') <= Len(input)
          /\ ret' = "true" => Consumed(i') > Consumed(i) ]_vars

\* Next() has returned false at the end of an input of MaxLen records, after
\* it returned true once for each user key
C30_Witness ==
    /\ Completed
    /\ Len(input) = MaxLen
    /\ Len(out) = NumKeys
    /\ i.iter = Len(input) + 1

\* C31: the LevelMetrics that SafeFormat has accumulated when it prints the
\* row "total" is equal to what Total() returns, in every field, and the row
\* printed is the row of what Total() returns.
C31_TotalsRowIsTotal ==
    probe.op = "SafeFormat" =>
        /\ probe.result.total = Total(probe.m)
        /\ \A f \in UnsignedCounters \cup SignedCounters \cup
                     { "Sublevels", "Score" } :
              Field(probe.result.total, f) = Field(Total(probe.m), f)
        /\ probe.result.row =
              Format(Total(probe.m), notApplicable, HaveValueBlocks(probe.m))

\* a report of levels with sublevels, bytes ingested and flushed, and bytes
\* written to the WAL, so that the bytes-in of the row "total" are not the
\* sum of the bytes-in of the levels and its bytes flushed not the sum of
\* the bytes flushed
C31_Witness ==
    /\ probe.op = "SafeFormat"
    /\ probe.m.WAL.BytesWritten = 100
    /\ SumOver(probe.m.Levels, "BytesIngested") = 40
    /\ SumOver(probe.m.Levels, "BytesFlushed") = 50
    /\ SumOver(probe.m.Levels, "BytesIn") = 150
    /\ probe.result.total.Sublevels = 3
    /\ probe.result.total.BytesIn = 140
    /\ probe.result.total.BytesFlushed = 190
    /\ probe.result.row[1].in = 140
    /\ probe.result.row[1].rAmp = 3
    /\ Len(probe.result.row) = 2

====
